---- MODULE Spec2Model ----
(***************************************************************************)
(* Model of chat-backend/api/routes/http_stream.py: the POST /http/stream  *)
(* handler http_stream_chat and the async generator stream_llm_response.   *)
(*                                                                         *)
(* Texts that the code inspects character by character (fragments, buffer, *)
(* full_response, title) are sequences of one-character strings; ids,      *)
(* exception texts and event types are atomic strings.                     *)
(*                                                                         *)
(* pc is the position of the request:                                      *)
(*   "request"        the handler has not run yet                          *)
(*   "responded"      the handler returned a JSON error response           *)
(*   "created"        StreamingResponse returned, generator not started    *)
(*   "yield_start"    generator suspended at the yield of line 90          *)
(*   "await_llm"      generator awaiting the next fragment (line 99)       *)
(*   "yield_chunk"    generator suspended at the yield of line 117         *)
(*   "yield_summary"  generator suspended at the yield of line 140         *)
(*   "yield_complete" generator suspended at the yield of line 147         *)
(*   "yield_error"    generator suspended at the yield of line 177         *)
(*   "done"           generator ran to its end                             *)
(*   "closed"         the consumer closed or cancelled the generator       *)
(***************************************************************************)
EXTENDS Integers, Sequences, FiniteSets, TLC

VARIABLES request, response, setup_exc, calls, pc, events, llm, profile,
          full_response, buffer, buffer_size, chunk_counter, title, updates

vars == <<request, response, setup_exc, calls, pc, events, llm, profile,
          full_response, buffer, buffer_size, chunk_counter, title, updates>>

(* ------------------------------ bounds --------------------------------- *)

\* Most fragments the LLM collaborator yields in one request.
MaxFrags == 6

\* Longest single-fragment response of the title specification.
MaxTitleLen == 52

(* ------------------------- program constants --------------------------- *)

max_buffer_size == 5

\* len(full_response) > 10
MinResponseLen == 10

\* [:50]
TitleLimit == 50

\* len(title) < 10
MinTitleLen == 10

(* ------------------------------ strings -------------------------------- *)

\* Python None for an optional text.  Texts hold one-character strings
\* only, so no text equals it.
None == <<"None">>

NL == "\n"

\* c in s
Contains(s, c) == \E i \in 1..Len(s) : s[i] = c

\* s[:n]
Prefix(s, n) == SubSeq(s, 1, IF Len(s) < n THEN Len(s) ELSE n)

\* s.split('\n')[0]
FirstLine(s) ==
    IF Contains(s, NL)
    THEN SubSeq(s, 1, (CHOOSE i \in 1..Len(s) :
                          s[i] = NL /\ \A j \in 1..(i - 1) : s[j] # NL) - 1)
    ELSE s

\* s.replace(a, b)
Replace(s, a, b) == [i \in 1..Len(s) |-> IF s[i] = a THEN b ELSE s[i]]

RECURSIVE Concat(_)
Concat(ss) == IF ss = <<>> THEN <<>> ELSE Head(ss) \o Concat(Tail(ss))

\* bool(x) of a str
Truthy(s) == s # None /\ s # <<>>

(* ---------------------------- collaborators ---------------------------- *)

\* The account and chat stores: documents by id.
Accounts == [acc1 |-> [system_prompt |-> "be brief"]]

Chats == [chat1 |-> [model_profile |-> "fast"], chat2 |-> [name |-> "untitled"]]

\* A failed lookup.  The handler only tests the truth value of a lookup,
\* so None is represented by the (equally false) empty document.
NoDoc == [k \in {} |-> ""]

get_account(id) == IF id \in DOMAIN Accounts THEN Accounts[id] ELSE NoDoc

get_chat(id) == IF id \in DOMAIN Chats THEN Chats[id] ELSE NoDoc

\* d.get(k, default)
DictGet(d, k, default) == IF k \in DOMAIN d THEN d[k] ELSE default

\* Texts of the exceptions a collaborator raises.
ExcTexts == {"timeout", "connection reset"}

\* The collaborator of the handler that raises, if any.
SetupFailures == {"none", "get_account", "get_chat", "get_recent_messages", "build_prompt"}

\* Fragments the LLM collaborator yields.
Fragments == { <<>>, <<"a", "b", "c">>, <<"x", ".">>, <<NL>>, <<"?", "!">> }

\* Fragments with each of the characters that flush the buffer on its own.
FlushFragments ==
    { <<>>, <<"a">>, <<"b", ".">>, <<NL>>, <<"?">>, <<"c", "!">> }

(* ---------------------- single-fragment responses ---------------------- *)

Digits == <<"0", "1", "2", "3", "4", "5", "6", "7", "8", "9">>

\* A text of n characters with newlines at positions p and q (0: none);
\* the other characters are the position's last digit, or spaces.
TitleText(n, p, q, fill) ==
    [i \in 1..n |-> IF i = p \/ i = q THEN NL
                    ELSE IF fill = "digits" THEN Digits[(i % 10) + 1] ELSE " "]

\* The two full responses the documentation gives as examples.
HelloWorld ==
    <<"H", "e", "l", "l", "o", " ", "w", "o", "r", "l", "d", NL,
      "T", "h", "i", "s", " ", "c", "o", "n", "t", "i", "n", "u", "e", "s">>

HiThere ==
    <<"H", "i", NL, "t", "h", "e", "r", "e", ",", " ", "m", "o", "r", "e", " ",
      "t", "e", "x", "t", " ", "f", "o", "l", "l", "o", "w", "s">>

Examples == {HelloWorld, HiThere}

TitleInputs ==
    Examples \cup
    UNION { { TitleText(np[1], np[2], q, fill) :
                q \in {0, np[2] + 1, np[1]}, fill \in {"digits", "spaces"} } :
            np \in { x \in (0..MaxTitleLen) \X (0..MaxTitleLen) : x[2] <= x[1] } }

(* ------------------------------- events -------------------------------- *)

EmptyDict == [k \in {} |-> <<>>]

\* One SSE frame "data: <json>\n\n", kept as the JSON object it carries.
Event(type, data) == [type |-> type, data |-> data]

StartEvent == Event("start", EmptyDict)

ChunkEvent(text) == Event("chunk", [text |-> text])

SummaryEvent(t) == Event("summary", [title |-> t])

CompleteEvent(text) == Event("complete", [text |-> text])

ErrorEvent(message) == Event("error", [message |-> message])

(* ------------------------------- handler ------------------------------- *)

NoResponse == [status_code |-> 0, media_type |-> "", error |-> ""]

\* Response(content=json.dumps({"error": message}), status_code=..., ...)
JsonError(status, message) ==
    [status_code |-> status, media_type |-> "application/json", error |-> message]

\* StreamingResponse(stream_llm_response(...), media_type="text/event-stream")
StreamingResponse ==
    [status_code |-> 200, media_type |-> "text/event-stream", error |-> ""]

\* No exception during setup.
NoException == [who |-> "", text |-> ""]

\* The handler returns a JSON error after the collaborators called.
Rejected(status, message, called) ==
    [response |-> JsonError(status, message), calls |-> called,
     raised |-> NoException, stream |-> FALSE, profile |-> ""]

\* SetupError answering with a fixed text instead of the exception's.
SetupError_generic(who, exc, called) ==
    [response |-> JsonError(500, "Internal Server Error"), calls |-> called,
     raised |-> [who |-> who, text |-> exc], stream |-> FALSE, profile |-> ""]

\* except Exception as e: collaborator who, the last of called, raised an
\* exception of text exc.
SetupError(who, exc, called) ==
    [response |-> JsonError(500, exc), calls |-> called,
     raised |-> [who |-> who, text |-> exc], stream |-> FALSE, profile |-> ""]

\* AccountMissing without the check.
AccountMissing_never(account) == FALSE

\* not account
AccountMissing(account) == DOMAIN account = {}

\* ChatMissing without the check.
ChatMissing_never(chat) == FALSE

\* not chat
ChatMissing(chat) == DOMAIN chat = {}

\* The result of http_stream_chat for request req when collaborator fail
\* (if any, and if it is called) raises an exception of text exc: the
\* response, the collaborators called, the exception caught, and the
\* profile handed to the generator when one is created.
HandlerResult(req, fail, exc) ==
    IF fail = "get_account"
    THEN SetupError(fail, exc, <<"get_account">>)
    ELSE LET account == get_account(req.account_id) IN
    IF AccountMissing(account)
    THEN Rejected(400, "Invalid account ID", <<"get_account">>)
    ELSE IF fail = "get_chat"
    THEN SetupError(fail, exc, <<"get_account", "get_chat">>)
    ELSE LET chat == get_chat(req.conversation_id) IN
    IF ChatMissing(chat)
    THEN Rejected(400, "Invalid chat ID", <<"get_account", "get_chat">>)
    ELSE IF fail = "get_recent_messages"
    THEN SetupError(fail, exc, <<"get_account", "get_chat", "get_recent_messages">>)
    ELSE IF fail = "build_prompt"
    THEN SetupError(fail, exc,
                    <<"get_account", "get_chat", "get_recent_messages", "build_prompt">>)
    ELSE [response |-> StreamingResponse,
          calls |-> <<"get_account", "get_chat", "get_recent_messages", "build_prompt">>,
          raised |-> NoException, stream |-> TRUE,
          profile |-> DictGet(chat, "model_profile", "default")]

\* POST /http/stream
http_stream_chat ==
    /\ pc = "request"
    /\ \E fail \in SetupFailures, exc \in ExcTexts :
         LET r == HandlerResult(request, fail, exc) IN
           /\ response' = r.response
           /\ calls' = calls \o r.calls
           /\ setup_exc' = r.raised
           /\ profile' = r.profile
           /\ pc' = IF r.stream THEN "created" ELSE "responded"
    /\ UNCHANGED <<request, events, llm, full_response, buffer, buffer_size,
                   chunk_counter, title, updates>>

(* ------------------------------ generator ------------------------------ *)

\* The LLM collaborator's stream before run_llm_stream is called.
NoStream == [state |-> "unopened", yielded |-> <<>>, exc |-> ""]

\* stream_llm_response up to its first yield: full_response = "" and the
\* start event.
GenStart ==
    /\ pc = "created"
    /\ full_response' = <<>>
    /\ events' = Append(events, StartEvent)
    /\ pc' = "yield_start"
    /\ UNCHANGED <<request, response, setup_exc, calls, llm, profile, buffer, buffer_size,
                   chunk_counter, title, updates>>

\* Resumed after the start event: the buffer is set up and the loop asks
\* run_llm_stream(prompt, profile=profile) for its first fragment.
ResumeAfterStart ==
    /\ pc = "yield_start"
    /\ buffer' = <<>>
    /\ buffer_size' = 0
    /\ chunk_counter' = 0
    /\ calls' = Append(calls, "run_llm_stream")
    /\ llm' = [llm EXCEPT !.state = "open"]
    /\ pc' = "await_llm"
    /\ UNCHANGED <<request, response, setup_exc, events, profile, full_response, title, updates>>

\* ShouldFlush with > for >=.
ShouldFlush_gt(size, chunk) ==
    \/ size > max_buffer_size
    \/ Contains(chunk, ".")
    \/ Contains(chunk, NL)
    \/ Contains(chunk, "?")
    \/ Contains(chunk, "!")

\* buffer_size >= max_buffer_size or '.' in chunk or '\n' in chunk or
\* '?' in chunk or '!' in chunk
ShouldFlush(size, chunk) ==
    \/ size >= max_buffer_size
    \/ Contains(chunk, ".")
    \/ Contains(chunk, NL)
    \/ Contains(chunk, "?")
    \/ Contains(chunk, "!")

\* One iteration of the async for: the collaborator yields a fragment of
\* pool (at most max per request); it is buffered, and the buffer is sent
\* as a chunk event when ShouldFlush.
FetchFragment(pool, max) ==
    /\ pc = "await_llm"
    /\ Len(llm.yielded) < max
    /\ \E chunk \in pool :
         /\ llm' = [llm EXCEPT !.yielded = Append(@, chunk)]
         /\ buffer' = buffer \o chunk
         /\ full_response' = full_response \o chunk
         /\ buffer_size' = buffer_size + 1
         /\ IF ShouldFlush(buffer_size + 1, chunk)
            THEN /\ events' = Append(events, ChunkEvent(buffer \o chunk))
                 /\ pc' = "yield_chunk"
            ELSE /\ events' = events
                 /\ pc' = "await_llm"
    /\ UNCHANGED <<request, response, setup_exc, calls, profile, chunk_counter, title, updates>>

\* ResumeAfterChunk resetting the count but not the buffer.
ResumeAfterChunk_keep ==
    /\ pc = "yield_chunk"
    /\ buffer' = buffer
    /\ buffer_size' = 0
    /\ chunk_counter' = chunk_counter + 1
    /\ pc' = "await_llm"
    /\ UNCHANGED <<request, response, setup_exc, calls, events, llm, profile, full_response,
                   title, updates>>

\* Resumed after a chunk event: the buffer is emptied.
ResumeAfterChunk ==
    /\ pc = "yield_chunk"
    /\ buffer' = <<>>
    /\ buffer_size' = 0
    /\ chunk_counter' = chunk_counter + 1
    /\ pc' = "await_llm"
    /\ UNCHANGED <<request, response, setup_exc, calls, events, llm, profile, full_response,
                   title, updates>>

\* DeriveTitle falling back for a first line of exactly 10 characters.
DeriveTitle_le(full) ==
    IF Len(full) > MinResponseLen
    THEN LET first == Prefix(FirstLine(full), TitleLimit) IN
           IF Len(first) <= MinTitleLen
           THEN Replace(Prefix(full, TitleLimit), NL, " ")
           ELSE first
    ELSE None

\* DeriveTitle giving a title to a full response of exactly 10 characters.
DeriveTitle_ge(full) ==
    IF Len(full) >= MinResponseLen
    THEN LET first == Prefix(FirstLine(full), TitleLimit) IN
           IF Len(first) < MinTitleLen
           THEN Replace(Prefix(full, TitleLimit), NL, " ")
           ELSE first
    ELSE None

\* DeriveTitle falling back without replacing the newlines.
DeriveTitle_keepnl(full) ==
    IF Len(full) > MinResponseLen
    THEN LET first == Prefix(FirstLine(full), TitleLimit) IN
           IF Len(first) < MinTitleLen
           THEN Prefix(full, TitleLimit)
           ELSE first
    ELSE None

\* The title of a full response, None when there is none.
DeriveTitle(full) ==
    IF Len(full) > MinResponseLen
    THEN LET first == Prefix(FirstLine(full), TitleLimit) IN
           IF Len(first) < MinTitleLen
           THEN Replace(Prefix(full, TitleLimit), NL, " ")
           ELSE first
    ELSE None

\* ClosingEvents sending the complete event before the summary event.
ClosingEvents_swapped(t, full) ==
    IF Truthy(t) THEN <<CompleteEvent(full), SummaryEvent(t)>>
    ELSE <<CompleteEvent(full)>>

\* The events sent once the fragments are exhausted: the summary event if
\* there is a title, then the complete event.
ClosingEvents(t, full) ==
    IF Truthy(t) THEN <<SummaryEvent(t), CompleteEvent(full)>>
    ELSE <<CompleteEvent(full)>>

\* The collaborator's stream ends: the title is derived and the first of
\* the closing events is sent.
LLMExhausted ==
    /\ pc = "await_llm"
    /\ llm' = [llm EXCEPT !.state = "exhausted"]
    /\ title' = DeriveTitle(full_response)
    /\ events' = Append(events, Head(ClosingEvents(title', full_response)))
    /\ pc' = IF Truthy(title') THEN "yield_summary" ELSE "yield_complete"
    /\ UNCHANGED <<request, response, setup_exc, calls, profile, full_response, buffer,
                   buffer_size, chunk_counter, updates>>

\* Resumed after the summary event: the complete event is sent.
ResumeAfterSummary ==
    /\ pc = "yield_summary"
    /\ events' = Append(events, ClosingEvents(title, full_response)[2])
    /\ pc' = "yield_complete"
    /\ UNCHANGED <<request, response, setup_exc, calls, llm, profile, full_response, buffer,
                   buffer_size, chunk_counter, title, updates>>

\* OnException sending a fixed text instead of the exception's.
OnException_generic(exc) == <<ErrorEvent("Internal error")>>

\* The events sent by the except clause for an exception of text exc.
OnException(exc) == <<ErrorEvent(exc)>>

\* {k: v for k, v in update_data.items() if v is not None and v != ""}
UpdateDataCleaned(full, t) ==
    LET update_data == [response |-> full, title |-> t]
        kept == { k \in DOMAIN update_data :
                    update_data[k] # None /\ update_data[k] # <<>> }
    IN [k \in kept |-> update_data[k]]

\* Persist without the test of original_message_id.
Persist_anyId(message_id, full, t, raised) ==
    IF DOMAIN UpdateDataCleaned(full, t) # {}
    THEN << [message_id |-> message_id, fields |-> UpdateDataCleaned(full, t),
             raised |-> raised] >>
    ELSE << >>

\* The update_message calls of one request: none without a message id or
\* with nothing left to update; raised tells whether the call raised.
Persist(message_id, full, t, raised) ==
    IF message_id # "" /\ DOMAIN UpdateDataCleaned(full, t) # {}
    THEN << [message_id |-> message_id, fields |-> UpdateDataCleaned(full, t),
             raised |-> raised] >>
    ELSE << >>

\* ResumeAfterComplete without the try around update_message: its
\* exception reaches the except clause of the generator.
ResumeAfterComplete_unguarded ==
    /\ pc = "yield_complete"
    /\ \E raised \in BOOLEAN :
         LET made == Persist(request.original_message_id, full_response, title, raised) IN
           /\ updates' = updates \o made
           /\ calls' = calls \o [i \in 1..Len(made) |-> "update_message"]
           /\ IF made # <<>> /\ raised
              THEN /\ events' = events \o OnException("update failed")
                   /\ pc' = "yield_error"
              ELSE /\ events' = events
                   /\ pc' = "done"
    /\ UNCHANGED <<request, response, setup_exc, llm, profile, full_response, buffer,
                   buffer_size, chunk_counter, title>>

\* Resumed after the complete event: the message is updated (an exception
\* of update_message is logged) and the generator ends.
ResumeAfterComplete ==
    /\ pc = "yield_complete"
    /\ \E raised \in BOOLEAN :
         LET made == Persist(request.original_message_id, full_response, title, raised) IN
           /\ updates' = updates \o made
           /\ calls' = calls \o [i \in 1..Len(made) |-> "update_message"]
    /\ pc' = "done"
    /\ UNCHANGED <<request, response, setup_exc, events, llm, profile, full_response, buffer,
                   buffer_size, chunk_counter, title>>

\* LLMRaise saving the partial response before the error event.
LLMRaise_saving ==
    /\ pc = "await_llm"
    /\ \E exc \in ExcTexts :
         /\ llm' = [llm EXCEPT !.state = "raised", !.exc = exc]
         /\ events' = events \o OnException(exc)
    /\ LET made == Persist(request.original_message_id, full_response, None, FALSE) IN
         /\ updates' = updates \o made
         /\ calls' = calls \o [i \in 1..Len(made) |-> "update_message"]
    /\ pc' = "yield_error"
    /\ UNCHANGED <<request, response, setup_exc, profile, full_response, buffer,
                   buffer_size, chunk_counter, title>>

\* The collaborator raises instead of yielding: the except clause of the
\* generator sends the error event.
LLMRaise ==
    /\ pc = "await_llm"
    /\ \E exc \in ExcTexts :
         /\ llm' = [llm EXCEPT !.state = "raised", !.exc = exc]
         /\ events' = events \o OnException(exc)
    /\ pc' = "yield_error"
    /\ UNCHANGED <<request, response, setup_exc, calls, profile, full_response, buffer,
                   buffer_size, chunk_counter, title, updates>>

\* Resumed after the error event: the generator ends.
ResumeAfterError ==
    /\ pc = "yield_error"
    /\ pc' = "done"
    /\ UNCHANGED <<request, response, setup_exc, calls, events, llm, profile, full_response,
                   buffer, buffer_size, chunk_counter, title, updates>>

Suspended ==
    {"created", "yield_start", "await_llm", "yield_chunk", "yield_summary",
     "yield_complete", "yield_error"}

\* ConsumerClose with the update made on the way out (as in a finally
\* clause) when the generator is closed at the complete event.
ConsumerClose_finally ==
    /\ pc \in Suspended
    /\ pc' = "closed"
    /\ LET made == IF pc = "yield_complete"
                   THEN Persist(request.original_message_id, full_response, title, FALSE)
                   ELSE << >> IN
         /\ updates' = updates \o made
         /\ calls' = calls \o [i \in 1..Len(made) |-> "update_message"]
    /\ UNCHANGED <<request, response, setup_exc, events, llm, profile, full_response,
                   buffer, buffer_size, chunk_counter, title>>

\* The client goes away: the generator is closed or its task cancelled
\* where it is suspended.  GeneratorExit and CancelledError are not
\* Exceptions, so the except clause does not run.
ConsumerClose ==
    /\ pc \in Suspended
    /\ pc' = "closed"
    /\ UNCHANGED <<request, response, setup_exc, calls, events, llm, profile, full_response,
                   buffer, buffer_size, chunk_counter, title, updates>>

(* ---------------------------- specifications --------------------------- *)

AccountIds == {"acc1", "ghost"}

ChatIds == {"chat1", "chat2", "nochat"}

MessageIds == {"", "m1"}

Init ==
    /\ request \in [message : {"hi"}, account_id : AccountIds,
                    conversation_id : ChatIds, original_message_id : MessageIds]
    /\ response = NoResponse
    /\ setup_exc = NoException
    /\ calls = <<>>
    /\ pc = "request"
    /\ events = <<>>
    /\ llm = NoStream
    /\ profile = ""
    /\ full_response = <<>>
    /\ buffer = <<>>
    /\ buffer_size = 0
    /\ chunk_counter = 0
    /\ title = None
    /\ updates = <<>>

Next ==
    \/ http_stream_chat
    \/ GenStart
    \/ ResumeAfterStart
    \/ FetchFragment(Fragments, MaxFrags)
    \/ ResumeAfterChunk
    \/ LLMExhausted
    \/ ResumeAfterSummary
    \/ ResumeAfterComplete
    \/ LLMRaise
    \/ ResumeAfterError
    \/ ConsumerClose

Spec == Init /\ [][Next]_vars

\* Requests whose response is a single fragment of TitleInputs.
TitleNext ==
    \/ http_stream_chat
    \/ GenStart
    \/ ResumeAfterStart
    \/ FetchFragment(TitleInputs, 1)
    \/ ResumeAfterChunk
    \/ LLMExhausted
    \/ ResumeAfterSummary
    \/ ResumeAfterComplete
    \/ LLMRaise
    \/ ResumeAfterError
    \/ ConsumerClose

TitleSpec == Init /\ [][TitleNext]_vars

\* Requests whose fragments are those of FlushFragments.
FlushNext ==
    \/ http_stream_chat
    \/ GenStart
    \/ ResumeAfterStart
    \/ FetchFragment(FlushFragments, MaxFrags)
    \/ ResumeAfterChunk
    \/ LLMExhausted
    \/ ResumeAfterSummary
    \/ ResumeAfterComplete
    \/ LLMRaise
    \/ ResumeAfterError
    \/ ConsumerClose

FlushSpec == Init /\ [][FlushNext]_vars

TypeOK ==
    /\ pc \in Suspended \cup {"request", "responded", "done", "closed"}
    /\ buffer_size \in 0..max_buffer_size
    /\ Len(updates) <= 1

(* ------------------------------ properties ----------------------------- *)

Terminal == {"complete", "error"}

\* The event types that may come right before an event of a type.
MayPrecede(type) ==
    CASE type = "start" -> {}
      [] type = "chunk" -> {"start", "chunk"}
      [] type = "summary" -> {"start", "chunk"}
      [] type = "complete" -> {"start", "chunk", "summary"}
      [] type = "error" -> {"start", "chunk"}

OfType(type) == { i \in 1..Len(events) : events[i].type = type }

\* The generator ran to its end (it was neither closed nor cancelled).
Finished == pc = "done"

\* The fragments were exhausted and the generator ran to its end.
Completed == Finished /\ llm.state = "exhausted"

RECURSIVE ChunkTexts(_)
\* The texts of the chunk events of evs, concatenated in emission order.
ChunkTexts(evs) ==
    IF evs = <<>> THEN <<>>
    ELSE (IF Head(evs).type = "chunk" THEN Head(evs).data.text ELSE <<>>)
         \o ChunkTexts(Tail(evs))

\* C1: the events of a valid request are one start, then chunks, then an
\* optional summary, then one complete or error: the first event is the
\* start, every later event follows an event its type may follow (so a
\* terminal event is the last one and a summary is followed by nothing but
\* the complete event), and a generator that ran to its end sent exactly
\* one terminal event.
C1_EventOrder ==
    /\ \A i \in 1..Len(events) :
         IF i = 1 THEN events[i].type = "start"
         ELSE events[i - 1].type \in MayPrecede(events[i].type)
    /\ Finished => /\ Cardinality(OfType("start")) = 1
                   /\ Cardinality(OfType("complete") \cup OfType("error")) = 1
                   /\ events[Len(events)].type \in Terminal

C1_Witness ==
    /\ Finished
    /\ Cardinality(OfType("chunk")) >= 2
    /\ OfType("summary") # {}
    /\ events[Len(events)].type = "complete"

\* C2: once the complete event is sent, the chunk texts concatenated equal
\* its text, which equals the concatenation of the fragments yielded.
C2_ChunksEqualComplete ==
    \A i \in OfType("complete") :
        /\ ChunkTexts(events) = events[i].data.text
        /\ events[i].data.text = Concat(llm.yielded)

\* C3: a completed stream with an original_message_id made exactly one
\* update_message call, for that id, with the full response and with the
\* title, the title being left out when there is none.
C3_OneUpdate ==
    (Completed /\ request.original_message_id # "") =>
        /\ Len(updates) = 1
        /\ updates[1].message_id = request.original_message_id
        /\ updates[1].fields =
             (IF title = None THEN [response |-> full_response]
              ELSE [response |-> full_response, title |-> title])

\* C4: an exception of the LLM collaborator gives exactly one error event,
\* the last event, carrying the exception text, and neither a summary nor
\* a complete event.
C4_LLMErrorIsTerminal ==
    llm.state = "raised" =>
        /\ pc \in {"yield_error", "done", "closed"}
        /\ Cardinality(OfType("error")) = 1
        /\ events[Len(events)] = ErrorEvent(llm.exc)
        /\ OfType("summary") = {}
        /\ OfType("complete") = {}

C4_Witness ==
    /\ llm.state = "raised"
    /\ Finished
    /\ OfType("chunk") # {}
    /\ buffer # <<>>

\* C5: when get_account returns nothing, the response is the 400 "Invalid
\* account ID", no event is sent, and neither get_chat, the prompt builder,
\* the LLM collaborator nor update_message is called.
C5_UnknownAccount ==
    (/\ pc # "request"
     /\ request.account_id \notin DOMAIN Accounts
     /\ setup_exc.who # "get_account") =>
        /\ response = JsonError(400, "Invalid account ID")
        /\ pc = "responded"
        /\ events = <<>>
        /\ calls = <<"get_account">>
        /\ updates = <<>>

C5_Witness ==
    /\ pc = "responded"
    /\ request.account_id = "ghost"
    /\ request.conversation_id = "chat1"
    /\ response.status_code = 400

\* C6: with a known account, when get_chat returns nothing, the response
\* is the 400 "Invalid chat ID", no event is sent, and neither the LLM
\* collaborator nor update_message is called.
C6_UnknownChat ==
    (/\ pc # "request"
     /\ request.account_id \in DOMAIN Accounts
     /\ request.conversation_id \notin DOMAIN Chats
     /\ setup_exc.who \notin {"get_account", "get_chat"}) =>
        /\ response = JsonError(400, "Invalid chat ID")
        /\ pc = "responded"
        /\ events = <<>>
        /\ \A i \in 1..Len(calls) : calls[i] \notin {"run_llm_stream", "update_message"}
        /\ updates = <<>>

C6_Witness ==
    /\ pc = "responded"
    /\ request.account_id = "acc1"
    /\ request.conversation_id = "nochat"
    /\ response.error = "Invalid chat ID"

\* C7: an exception during setup gives the 500 response with the
\* exception text and no event; once an event is sent the response is the
\* event stream, and an exception of the LLM collaborator shows as the
\* error event only.
C7_DisjointChannels ==
    /\ setup_exc.who # "" =>
         /\ response = JsonError(500, setup_exc.text)
         /\ pc = "responded"
         /\ events = <<>>
    /\ events # <<>> => response = StreamingResponse
    /\ llm.state = "raised" =>
         /\ response = StreamingResponse
         /\ OfType("error") # {}
    /\ response.status_code \in {400, 500} => events = <<>> /\ llm = NoStream

C7_Witness ==
    /\ setup_exc = [who |-> "build_prompt", text |-> "timeout"]
    /\ response.status_code = 500
    /\ Len(calls) = 4

\* C8: once the fragments are exhausted no error event is sent, whether or
\* not there is a title and whether or not update_message raises, and the
\* generator that ran to its end sent the complete event, once, as its last
\* event.
C8_NoErrorAfterExhaustion ==
    llm.state = "exhausted" =>
        /\ OfType("error") = {}
        /\ Finished => /\ Cardinality(OfType("complete")) = 1
                       /\ events[Len(events)].type = "complete"
        /\ pc \in {"yield_summary", "yield_complete", "done", "closed"}

C8_Witness ==
    /\ Completed
    /\ Len(updates) = 1
    /\ updates[1].raised
    /\ title = None
    /\ events[Len(events)].type = "complete"

\* The length of the longest prefix of s of at most limit characters that
\* holds no newline.
FirstLineLen(s, limit) ==
    CHOOSE k \in 0..Len(s) :
        /\ k <= limit
        /\ \A j \in 1..k : s[j] # NL
        /\ k = Len(s) \/ k = limit \/ s[k + 1] = NL

\* C9: the title of a full response of more than 10 characters is its
\* first line cut to 50 characters when that has at least 10 characters,
\* and otherwise the first 50 characters of the response with each newline
\* replaced by a space.
C9_TitleDerivation ==
    (llm.state = "exhausted" /\ Len(full_response) > 10) =>
        LET k == FirstLineLen(full_response, 50)
            m == IF Len(full_response) < 50 THEN Len(full_response) ELSE 50
        IN /\ k >= 10 => title = SubSeq(full_response, 1, k)
           /\ k < 10 =>
                /\ Len(title) = m
                /\ \A i \in 1..m :
                     title[i] = IF full_response[i] = NL THEN " " ELSE full_response[i]
           /\ full_response = HelloWorld =>
                title = <<"H", "e", "l", "l", "o", " ", "w", "o", "r", "l", "d">>
           /\ full_response = HiThere =>
                title = <<"H", "i", " ", "t", "h", "e", "r", "e", ",", " ", "m", "o",
                          "r", "e", " ", "t", "e", "x", "t", " ", "f", "o", "l", "l",
                          "o", "w", "s">>

C9_Witness ==
    /\ Completed
    /\ Len(full_response) > 50
    /\ Contains(full_response, NL)
    /\ FirstLineLen(full_response, 50) < 10
    /\ Len(title) = 50
    /\ Contains(title, " ")
    /\ events[Len(events) - 1] = SummaryEvent(title)

\* C10: a completed stream whose full response has at most 10 characters
\* has no title, sent no summary event, and put no title in its update.
C10_ShortResponseNoTitle ==
    (llm.state = "exhausted" /\ Len(full_response) <= 10) =>
        /\ title = None
        /\ OfType("summary") = {}
        /\ \A i \in 1..Len(updates) : "title" \notin DOMAIN updates[i].fields

C10_Witness ==
    /\ Completed
    /\ Len(full_response) = 10
    /\ Len(updates) = 1
    /\ DOMAIN updates[1].fields = {"response"}
    /\ events[Len(events)].type = "complete"

\* A text of spaces only (the empty text included).
Blank(s) == \A i \in 1..Len(s) : s[i] = " "

\* C11: no update carries a title that is empty or blank.
C11_NoBlankTitleStored ==
    \A i \in 1..Len(updates) :
        "title" \in DOMAIN updates[i].fields => ~Blank(updates[i].fields.title)

\* The last n elements of a sequence.
LastN(seq, n) == SubSeq(seq, Len(seq) - n + 1, Len(seq))

\* A fragment holding '.', a newline, '?' or '!'.
HasFlushChar(f) == \E i \in 1..Len(f) : f[i] \in {".", NL, "?", "!"}

\* C12: a fragment is followed by a chunk event exactly when it is the
\* fifth buffered since the previous flush or holds one of . \n ? !, and
\* the chunk's text is what was buffered since that flush.  Waiting for the
\* next fragment, the buffer holds the last 0 to 4 fragments, none with such
\* a character, and everything before them was sent; suspended at a chunk
\* event, the event carries the last 1 to 5 fragments, of which only the
\* last may hold such a character, and it is the fifth or holds one.
C12_FlushRule ==
    /\ pc = "await_llm" =>
         /\ buffer_size \in 0..4
         /\ buffer_size <= Len(llm.yielded)
         /\ buffer = Concat(LastN(llm.yielded, buffer_size))
         /\ \A i \in 1..buffer_size : ~HasFlushChar(LastN(llm.yielded, buffer_size)[i])
         /\ ChunkTexts(events) \o buffer = Concat(llm.yielded)
    /\ pc = "yield_chunk" =>
         /\ buffer_size \in 1..5
         /\ buffer_size <= Len(llm.yielded)
         /\ events[Len(events)] = ChunkEvent(Concat(LastN(llm.yielded, buffer_size)))
         /\ \A i \in 1..(buffer_size - 1) : ~HasFlushChar(LastN(llm.yielded, buffer_size)[i])
         /\ buffer_size = 5 \/ HasFlushChar(llm.yielded[Len(llm.yielded)])
         /\ ChunkTexts(events) = Concat(llm.yielded)

C12_Witness ==
    /\ pc = "yield_chunk"
    /\ buffer_size = 5
    /\ ~HasFlushChar(llm.yielded[Len(llm.yielded)])
    /\ Cardinality(OfType("chunk")) = 2
    /\ buffer # <<>>

\* C13: without an original_message_id update_message is never called,
\* while a stream that completes still sent its complete event, after the
\* summary event when there is a title.
C13_NoIdNoUpdate ==
    request.original_message_id = "" =>
        /\ updates = <<>>
        /\ \A i \in 1..Len(calls) : calls[i] # "update_message"
        /\ Completed =>
             /\ events[Len(events)] = CompleteEvent(full_response)
             /\ Truthy(title) => events[Len(events) - 1] = SummaryEvent(title)

C13_Witness ==
    /\ request.original_message_id = ""
    /\ Completed
    /\ full_response # <<>>
    /\ OfType("summary") # {}
    /\ OfType("complete") # {}

\* s is a prefix of t.
IsPrefix(s, t) == Len(s) <= Len(t) /\ SubSeq(t, 1, Len(s)) = s

\* C14 as stated: at every point of the streaming loop, the generator
\* suspended at a chunk event included, the chunk texts followed by the
\* buffer are the full response.
C14_AtEveryLoopPoint ==
    pc \in {"await_llm", "yield_chunk"} =>
        ChunkTexts(events) \o buffer = full_response

\* C14 as amended: whenever the generator waits for the next fragment, and
\* from the end of the loop on, the chunk texts followed by the buffer are
\* the full response; suspended at a chunk event, where the buffer is not
\* yet emptied, the chunk texts alone are the full response.  So the chunk
\* texts are always a prefix of the full response, which is the text of the
\* complete event, and no chunk event is sent for the buffer left when the
\* fragments end.
C14_ChunksThenBuffer ==
    /\ pc = "await_llm" => ChunkTexts(events) \o buffer = full_response
    /\ pc = "yield_chunk" => ChunkTexts(events) = full_response
    /\ IsPrefix(ChunkTexts(events), full_response)
    /\ llm.state = "exhausted" =>
         /\ ChunkTexts(events) \o buffer = full_response
         /\ Cardinality(OfType("chunk")) = chunk_counter
         /\ \A i \in OfType("complete") :
              /\ events[i].data.text = full_response
              /\ \A j \in OfType("chunk") : j < i

C14_Witness ==
    /\ Completed
    /\ OfType("chunk") # {}
    /\ buffer # <<>>
    /\ ChunkTexts(events) # full_response

\* C15: when the LLM collaborator raised, update_message is never called,
\* whatever was already sent as chunk events.
C15_ErrorNoUpdate ==
    (llm.state = "raised" \/ OfType("error") # {}) =>
        /\ updates = <<>>
        /\ \A i \in 1..Len(calls) : calls[i] # "update_message"

C15_Witness ==
    /\ llm.state = "raised"
    /\ Finished
    /\ request.original_message_id # ""
    /\ OfType("chunk") # {}
    /\ full_response # <<>>
    /\ updates = <<>>

\* C16: update_message is called at most once, and only by the generator
\* resumed after its complete event; a generator closed at any point, the
\* complete event included, made no update.
C16_UpdateAfterComplete ==
    /\ Len(updates) <= 1
    /\ Len(updates) = Cardinality({ i \in 1..Len(calls) : calls[i] = "update_message" })
    /\ updates # <<>> =>
         /\ Completed
         /\ events[Len(events)].type = "complete"
    /\ pc # "done" => updates = <<>>

C16_Witness ==
    /\ pc = "closed"
    /\ llm.state = "exhausted"
    /\ OfType("complete") # {}
    /\ request.original_message_id # ""
    /\ full_response # <<>>
    /\ updates = <<>>

\* C17: a completed stream sent a summary event exactly when its full
\* response has more than 10 characters; the title of a summary event is
\* not empty, has at most 50 characters and no newline, and is the title
\* of the update made.
C17_SummaryTitle ==
    /\ Completed => (OfType("summary") # {} <=> Len(full_response) > 10)
    /\ Cardinality(OfType("summary")) <= 1
    /\ \A i \in OfType("summary") :
         LET t == events[i].data.title IN
           /\ t # None
           /\ Len(t) \in 1..50
           /\ ~Contains(t, NL)
           /\ \A j \in 1..Len(updates) :
                /\ "title" \in DOMAIN updates[j].fields
                /\ updates[j].fields.title = t

C17_Witness ==
    /\ Completed
    /\ Len(full_response) = 11
    /\ Contains(full_response, NL)
    /\ OfType("summary") # {}
    /\ Len(updates) = 1
    /\ updates[1].fields.title = events[Len(events) - 1].data.title
    /\ Len(updates[1].fields.title) = 11

====
